---- MODULE Spec2Model ----
(***************************************************************************)
(* A model of src/main.py: the quiz scraper's deck builder (create_ppt),   *)
(* its sorter (sort_quiz_data, get_sorted_themes), its record extractor    *)
(* (extract_quiz_data), its dataset locator (find_jf_game) and its driver  *)
(* (main).  Strings whose characters matter (themes, page titles, number   *)
(* texts) are sequences of code points; Python lists are sequences; a      *)
(* Python dict is a function whose DOMAIN is its key set.                  *)
(***************************************************************************)
EXTENDS Integers, Sequences, FiniteSets, TLC

VARIABLES
    \* ---- create_ppt ----
    ppt_pc,                         \* "idle" | "run" | "done" | "raised"
    data,                           \* the record list passed to create_ppt
    output_file,                    \* the output identifier
    slides,                         \* prs.slides, slide k at slides[k+1]
    themes,                         \* get_sorted_themes(data)
    theme_to_first_question_slide,  \* dict: theme -> slide position
    question_slides,                \* list of question slide positions
    index_links,                    \* hyperlink paragraphs of the index slide
    row_i,                          \* rows consumed by the record loop
    link_i,                         \* themes consumed by the link loop
    btn_i,                          \* slides consumed by the button loop
    saved,                          \* files written by prs.save
    \* ---- sort_quiz_data ----
    sort_pc,                        \* "idle" | "run" | "done"
    sort_arg,                       \* parsed_data as it was passed in
    parsed_data,                    \* the list of parts, sorted in place
    sort_i,                         \* parts consumed by the loop
    \* ---- extract_quiz_data, the loop over quiz_data ----
    ext_pc,                         \* "idle" | "run" | "done" | "raised"
    ext_exc,                        \* the exception that left the function
    quiz_data,                      \* whole_json["x"]["data"]
    ext_part_i,                     \* parts consumed by the outer loop
    ext_in_part,                    \* inside the loop over part["text"]
    ext_row_i,                      \* rows of the part consumed
    part_data,                      \* local part_data
    ext_parsed_data,                \* local parsed_data
    player_name,                    \* local player_name, unbound at first
    points,                         \* local points, unbound at first
    \* ---- main and find_jf_game ----
    main_pc,                        \* "loop" | "find" | "extract" | "meta" | "parts" | "json" | "exit" | "crashed"
    main_exc,                       \* the exception that ended the run
    url_i,                          \* urls consumed by the loop of main
    page,                           \* what the current url was fetched as
    page_title,                     \* local page_title
    blk_i,                          \* level-3 blocks consumed by find_jf_game
    whole_json,                     \* local whole_json: 0 unbound, else the block it was read from
    sorted_data,                    \* local sorted_data: the parts, by their number of records
    season,                         \* local season
    week,                           \* local week
    main_part_i,                    \* parts consumed by the loop over sorted_data
    decks,                          \* deck files written: <<url, part>>
    summaries,                      \* summary files written: url
    diag                            \* lines printed: <<url, line>>

pptVars == <<ppt_pc, data, output_file, slides, themes,
             theme_to_first_question_slide, question_slides, index_links,
             row_i, link_i, btn_i, saved>>

sortVars == <<sort_pc, sort_arg, parsed_data, sort_i>>

extVars == <<ext_pc, ext_exc, quiz_data, ext_part_i, ext_in_part, ext_row_i,
             part_data, ext_parsed_data, player_name, points>>

mainVars == <<main_pc, main_exc, url_i, page, page_title, blk_i, whole_json,
              sorted_data, season, week, main_part_i, decks, summaries, diag>>

vars == <<pptVars, sortVars, extVars, mainVars>>

notPpt == <<sortVars, extVars, mainVars>>
notSort == <<pptVars, extVars, mainVars>>
notExt == <<pptVars, sortVars, mainVars>>
notMain == <<pptVars, sortVars, extVars>>

----------------------------------------------------------------------------
(* Bounds of the model. *)

MaxRecords == 4
MaxParts == 1
MaxLen == 3
MaxQuizParts == 2
MaxRows == 2
MaxUrls == 2
MaxBlocks == 2

----------------------------------------------------------------------------
(* Python str operations on code-point sequences. *)

\* "Mystery Box"
MysteryBox == <<77, 121, 115, 116, 101, 114, 121, 32, 66, 111, 120>>

\* str.startswith
StartsWith(s, p) == Len(s) >= Len(p) /\ SubSeq(s, 1, Len(p)) = p

\* str.__lt__ : code point order, a proper prefix is smaller
RECURSIVE StrLess(_, _)
StrLess(s, t) ==
    IF t = <<>> THEN FALSE
    ELSE IF s = <<>> THEN TRUE
    ELSE IF Head(s) # Head(t) THEN Head(s) < Head(t)
    ELSE StrLess(Tail(s), Tail(t))

\* the sort key  lambda x: (x.startswith("Mystery Box"), x)
ThemeKey_ThemeOnly(t) == <<FALSE, t>>

ThemeKey(t) == <<StartsWith(t, MysteryBox), t>>

\* tuple.__lt__ on two keys (False < True)
KeyLess(k1, k2) ==
    \/ (~k1[1] /\ k2[1])
    \/ (k1[1] = k2[1] /\ StrLess(k1[2], k2[2]))

----------------------------------------------------------------------------
(* The inputs. *)

ThemeA  == <<65>>                           \* "A"
ThemeZ  == <<90>>                           \* "Z"
ThemeM1 == MysteryBox \o <<32, 49>>         \* "Mystery Box 1"
ThemeM2 == MysteryBox \o <<32, 50>>         \* "Mystery Box 2"
Themes  == {ThemeA, ThemeZ, ThemeM1, ThemeM2}

Questions == {"Q1", "Q2"}
AnswerOf(q) == IF q = "Q1" THEN "A1" ELSE "A2"
XpOf(q) == IF q = "Q1" THEN "2.0" ELSE "0.5"

Records == {[theme |-> t, question |-> q, answer |-> AnswerOf(q), xP |-> XpOf(q)] :
                t \in Themes, q \in Questions}

SeqsUpTo(S, n) == UNION {[1..k -> S] : k \in 0..n}

RecordLists == SeqsUpTo(Records, MaxRecords)
OutputFiles == {"S15W7 - Parte 1"}

----------------------------------------------------------------------------
(* get_sorted_themes *)

\* list.sort / sorted: a stable insertion of x into the sorted list s
RECURSIVE InsertTheme(_, _)
InsertTheme(x, s) ==
    IF s = <<>> THEN <<x>>
    ELSE IF KeyLess(ThemeKey(x), ThemeKey(Head(s))) THEN <<x>> \o s
    ELSE <<Head(s)>> \o InsertTheme(x, Tail(s))

RECURSIVE SortedSet(_)
SortedSet(S) ==
    IF S = {} THEN <<>>
    ELSE LET x == CHOOSE y \in S : TRUE
         IN  InsertTheme(x, SortedSet(S \ {x}))

get_sorted_themes(d) == SortedSet({d[i].theme : i \in 1..Len(d)})

----------------------------------------------------------------------------
(* create_ppt *)

NoFooter == "none"

IndexSlide(f) == [title |-> f, body |-> "", footer |-> NoFooter, buttons |-> <<>>]

\* the Question slide and the Answer slide of one row, in the order added
RowSlides_Swapped(row) ==
    << [title |-> row.theme, body |-> row.answer, footer |-> row.xP, buttons |-> <<>>],
       [title |-> row.theme, body |-> row.question, footer |-> NoFooter, buttons |-> <<>>] >>

RowSlides(row) ==
    << [title |-> row.theme, body |-> row.question, footer |-> NoFooter, buttons |-> <<>>],
       [title |-> row.theme, body |-> row.answer, footer |-> row.xP, buttons |-> <<>>] >>

\* dict with key k set to v
DictSet(d, k, v) == [x \in DOMAIN d \cup {k} |-> IF x = k THEN v ELSE d[x]]

EmptyDict == [x \in {} |-> 0]

\* if row["theme"] not in theme_to_first_question_slide: ...[row["theme"]] = slide
RecordFirstSlide_Overwrite(d, theme, pos) == DictSet(d, theme, pos)

RecordFirstSlide_OnlyWhenEmpty(d, theme, pos) ==
    IF DOMAIN d = {} THEN DictSet(d, theme, pos) ELSE d

RecordFirstSlide(d, theme, pos) ==
    IF theme \notin DOMAIN d THEN DictSet(d, theme, pos) ELSE d

CreatePpt ==
    /\ ppt_pc = "idle"
    /\ \E d \in RecordLists, f \in OutputFiles :
        /\ ppt_pc' = "run"
        /\ data' = d
        /\ output_file' = f
        /\ slides' = <<IndexSlide(f)>>
        /\ themes' = get_sorted_themes(d)
        /\ theme_to_first_question_slide' = EmptyDict
        /\ question_slides' = <<>>
        /\ UNCHANGED <<index_links, row_i, link_i, btn_i, saved>>
        /\ UNCHANGED notPpt

\* one iteration of  for row in data
RowLoop ==
    /\ ppt_pc = "run"
    /\ row_i < Len(data)
    /\ LET row == data[row_i + 1]
           pos == Len(slides)          \* position of the slide about to be added
       IN  /\ slides' = slides \o RowSlides(row)
           /\ theme_to_first_question_slide' =
                  RecordFirstSlide(theme_to_first_question_slide, row.theme, pos)
           /\ question_slides' = Append(question_slides, pos)
    /\ row_i' = row_i + 1
    /\ UNCHANGED <<ppt_pc, data, output_file, themes, index_links, link_i, btn_i, saved>>
    /\ UNCHANGED notPpt

\* one iteration of  for i, theme in enumerate(themes, 1)
IndexLinkLoop ==
    /\ ppt_pc = "run"
    /\ row_i = Len(data)
    /\ link_i < Len(themes)
    /\ LET theme == themes[link_i + 1]
       IN  IF theme \in DOMAIN theme_to_first_question_slide
           THEN /\ index_links' = Append(index_links,
                        [text |-> theme, target |-> theme_to_first_question_slide[theme]])
                /\ link_i' = link_i + 1
                /\ UNCHANGED ppt_pc
           ELSE \* KeyError
                /\ ppt_pc' = "raised"
                /\ UNCHANGED <<index_links, link_i>>
    /\ UNCHANGED <<data, output_file, slides, themes, theme_to_first_question_slide,
                   question_slides, row_i, btn_i, saved>>
    /\ UNCHANGED notPpt

\* one iteration of  for i, slide in enumerate(prs.slides)
HomeButtonLoop_NoSkip ==
    /\ ppt_pc = "run"
    /\ row_i = Len(data)
    /\ link_i = Len(themes)
    /\ btn_i < Len(slides)
    /\ slides' = [slides EXCEPT ![btn_i + 1].buttons = Append(@, 0)]
    /\ btn_i' = btn_i + 1
    /\ UNCHANGED <<ppt_pc, data, output_file, themes, theme_to_first_question_slide,
                   question_slides, index_links, row_i, link_i, saved>>
    /\ UNCHANGED notPpt

HomeButtonLoop ==
    /\ ppt_pc = "run"
    /\ row_i = Len(data)
    /\ link_i = Len(themes)
    /\ btn_i < Len(slides)
    /\ slides' = IF btn_i = 0 THEN slides
                 ELSE [slides EXCEPT ![btn_i + 1].buttons = Append(@, 0)]
    /\ btn_i' = btn_i + 1
    /\ UNCHANGED <<ppt_pc, data, output_file, themes, theme_to_first_question_slide,
                   question_slides, index_links, row_i, link_i, saved>>
    /\ UNCHANGED notPpt

\* prs.save(f"{output_file}.pptx")
SavePpt ==
    /\ ppt_pc = "run"
    /\ row_i = Len(data)
    /\ link_i = Len(themes)
    /\ btn_i = Len(slides)
    /\ saved' = saved \cup {output_file}
    /\ ppt_pc' = "done"
    /\ UNCHANGED <<data, output_file, slides, themes, theme_to_first_question_slide,
                   question_slides, index_links, row_i, link_i, btn_i>>
    /\ UNCHANGED notPpt

PptInit ==
    /\ ppt_pc = "idle"
    /\ data = <<>>
    /\ output_file = ""
    /\ slides = <<>>
    /\ themes = <<>>
    /\ theme_to_first_question_slide = EmptyDict
    /\ question_slides = <<>>
    /\ index_links = <<>>
    /\ row_i = 0
    /\ link_i = 0
    /\ btn_i = 0
    /\ saved = {}

PptNext ==
    \/ CreatePpt
    \/ RowLoop
    \/ IndexLinkLoop
    \/ HomeButtonLoop
    \/ SavePpt

----------------------------------------------------------------------------
(* Claims about create_ppt. *)

RowLoopFinished == ppt_pc \in {"run", "done"} /\ row_i = Len(data)
LinkLoopFinished == RowLoopFinished /\ link_i = Len(themes)

DistinctThemes == {data[i].theme : i \in 1..Len(data)}
FirstRecordOf(t) == CHOOSE i \in 1..Len(data) :
                        /\ data[i].theme = t
                        /\ \A j \in 1..(i - 1) : data[j].theme # t
IsMystery(t) == StartsWith(t, MysteryBox)

\* C1: a list of N records gives 2N+1 slides: slide 0 is the Index, slide 2i-1
\* the Question slide and slide 2i the Answer slide of record i, both titled
\* with the theme of record i, in input order.
C1_DeckStructure ==
    /\ ppt_pc \in {"run", "done"} => Len(slides) = 2 * row_i + 1
    /\ RowLoopFinished =>
        /\ Len(slides) = 2 * Len(data) + 1
        /\ slides[1].title = output_file
        /\ slides[1].footer = NoFooter
        /\ \A i \in 1..Len(data) :
            /\ slides[(2 * i - 1) + 1].title = data[i].theme
            /\ slides[(2 * i - 1) + 1].body = data[i].question
            /\ slides[(2 * i - 1) + 1].footer = NoFooter
            /\ slides[(2 * i) + 1].title = data[i].theme
            /\ slides[(2 * i) + 1].body = data[i].answer
            /\ slides[(2 * i) + 1].footer = data[i].xP

C1_Witness ==
    /\ ppt_pc = "done"
    /\ Len(data) = 3
    /\ data[1].question # data[2].question
    /\ data[1].theme # data[3].theme

\* C2: the Index gets one link per distinct theme, in sorted theme order
\* (Mystery-Box themes last, otherwise lexicographic), each targeting the
\* Question slide of the first record of that theme.
C2_IndexLinks ==
    LinkLoopFinished =>
        /\ Len(index_links) = Cardinality(DistinctThemes)
        /\ {index_links[j].text : j \in 1..Len(index_links)} = DistinctThemes
        /\ \A j, k \in 1..Len(index_links) : j < k =>
            /\ IsMystery(index_links[j].text) => IsMystery(index_links[k].text)
            /\ IsMystery(index_links[j].text) = IsMystery(index_links[k].text)
                  => StrLess(index_links[j].text, index_links[k].text)
        /\ \A j \in 1..Len(index_links) :
              index_links[j].target = 2 * FirstRecordOf(index_links[j].text) - 1

C2_Witness ==
    /\ ppt_pc = "done"
    /\ Len(data) = 3
    /\ data[1].theme = ThemeM1
    /\ data[2].theme = ThemeA
    /\ data[3].theme = ThemeM1
    /\ Len(index_links) = 2

\* C3: every non-Index slide has exactly one navigation edge to the Index
\* and the Index has none.
C3_HomeButtons ==
    /\ ppt_pc \in {"run", "done"} =>
          \A k \in 1..Len(slides) :
              slides[k].buttons = IF k > 1 /\ k <= btn_i THEN <<0>> ELSE <<>>
    /\ ppt_pc = "done" =>
          /\ slides[1].buttons = <<>>
          /\ \A k \in 2..Len(slides) : slides[k].buttons = <<0>>

C3_Witness ==
    /\ ppt_pc = "done"
    /\ Len(slides) = 5
    /\ btn_i = 5

\* C10: once the record loop has finished, the keys of
\* theme_to_first_question_slide are exactly the themes get_sorted_themes
\* returned, so the link lookup never raises.
C10_KeysAreThemes ==
    /\ RowLoopFinished =>
          DOMAIN theme_to_first_question_slide = {themes[i] : i \in 1..Len(themes)}
    /\ ppt_pc # "raised"

C10_Witness ==
    /\ LinkLoopFinished
    /\ Len(data) = 3
    /\ data[1].theme = ThemeZ
    /\ data[2].theme = ThemeA
    /\ Cardinality(DOMAIN theme_to_first_question_slide) = 3
    /\ Len(index_links) = 3

----------------------------------------------------------------------------
(* sort_quiz_data *)

\* one part of k records; the question tells the records of a part apart
PartOf(ts) == [i \in 1..Len(ts) |-> [theme |-> ts[i], question |-> i]]
Parts == {PartOf(ts) : ts \in SeqsUpTo(Themes, MaxLen)}
ParsedDatas == SeqsUpTo(Parts, MaxParts)

\* list.sort(key=...): stable, x goes after every element whose key is not larger
RECURSIVE InsertRecord(_, _)
InsertRecord(x, s) ==
    IF s = <<>> THEN <<x>>
    ELSE IF KeyLess(ThemeKey(x.theme), ThemeKey(Head(s).theme)) THEN <<x>> \o s
    ELSE <<Head(s)>> \o InsertRecord(x, Tail(s))

RECURSIVE SortPart(_)
SortPart(part) ==
    IF part = <<>> THEN <<>>
    ELSE InsertRecord(part[Len(part)], SortPart(SubSeq(part, 1, Len(part) - 1)))

SortQuizData ==
    /\ sort_pc = "idle"
    /\ \E pd \in ParsedDatas :
        /\ sort_pc' = "run"
        /\ sort_arg' = pd
        /\ parsed_data' = pd
        /\ sort_i' = 0
        /\ UNCHANGED notSort

\* one iteration of  for part in parsed_data
SortLoop ==
    /\ sort_pc = "run"
    /\ sort_i < Len(parsed_data)
    /\ parsed_data' = [parsed_data EXCEPT ![sort_i + 1] = SortPart(@)]
    /\ sort_i' = sort_i + 1
    /\ UNCHANGED <<sort_pc, sort_arg>>
    /\ UNCHANGED notSort

\* return parsed_data
SortReturn ==
    /\ sort_pc = "run"
    /\ sort_i = Len(parsed_data)
    /\ sort_pc' = "done"
    /\ UNCHANGED <<sort_arg, parsed_data, sort_i>>
    /\ UNCHANGED notSort

SortInit ==
    /\ sort_pc = "idle"
    /\ sort_arg = <<>>
    /\ parsed_data = <<>>
    /\ sort_i = 0

SortNext ==
    \/ SortQuizData
    \/ SortLoop
    \/ SortReturn

----------------------------------------------------------------------------
(* Claims about sort_quiz_data. *)

Count(s, r) == Cardinality({j \in 1..Len(s) : s[j] = r})
OfTheme(s, t) == SelectSeq(s, LAMBDA r : r.theme = t)
InSortOrder(s) ==
    \A j, k \in 1..Len(s) : j < k =>
        /\ IsMystery(s[j].theme) => IsMystery(s[k].theme)
        /\ IsMystery(s[j].theme) = IsMystery(s[k].theme)
              => ~StrLess(s[k].theme, s[j].theme)

\* C4: each part becomes a permutation of its records, with no non-Mystery-Box
\* record after a Mystery-Box record, themes non-decreasing within each bucket,
\* records of one theme in their original relative order, and an already
\* sorted part unchanged.
C4_StableSort ==
    sort_pc \in {"run", "done"} =>
        /\ Len(parsed_data) = Len(sort_arg)
        /\ \A i \in 1..Len(parsed_data) :
              IF i <= sort_i
              THEN /\ Len(parsed_data[i]) = Len(sort_arg[i])
                   /\ \A j \in 1..Len(sort_arg[i]) :
                         Count(parsed_data[i], sort_arg[i][j]) =
                             Count(sort_arg[i], sort_arg[i][j])
                   /\ InSortOrder(parsed_data[i])
                   /\ \A t \in Themes :
                         OfTheme(parsed_data[i], t) = OfTheme(sort_arg[i], t)
                   /\ InSortOrder(sort_arg[i]) => parsed_data[i] = sort_arg[i]
              ELSE parsed_data[i] = sort_arg[i]

C4_Witness ==
    /\ sort_pc = "done"
    /\ Len(sort_arg) >= 1
    /\ Len(sort_arg[1]) = 3
    /\ sort_arg[1][1].theme = ThemeZ
    /\ sort_arg[1][2].theme = ThemeM1
    /\ sort_arg[1][3].theme = ThemeZ
    /\ parsed_data[1][2].question = 3

----------------------------------------------------------------------------
(* More Python text operations on code-point sequences. *)

Space == 32
Dot == 46
IsDigit(c) == c \in 48..57
DigitVal(c) == c - 48

\* str.strip()
RECURSIVE LStrip(_)
LStrip(s) == IF s # <<>> /\ Head(s) = Space THEN LStrip(Tail(s)) ELSE s
RECURSIVE RStrip(_)
RStrip(s) == IF s # <<>> /\ s[Len(s)] = Space THEN RStrip(SubSeq(s, 1, Len(s) - 1)) ELSE s
Strip(s) == RStrip(LStrip(s))

RECURSIVE Gcd(_, _)
Gcd(a, b) == IF b = 0 THEN a ELSE Gcd(b, a % b)

NumDots(s) == Cardinality({i \in 1..Len(s) : s[i] = Dot})
NumDigits(s) == Cardinality({i \in 1..Len(s) : IsDigit(s[i])})

\* float(text) on a text of digits and dots (all that [\d.]+ lets through):
\* it parses iff the text has at most one dot and at least one digit
FloatParses(s) == NumDots(s) <= 1 /\ NumDigits(s) >= 1

RECURSIVE DigitsValue(_, _)
DigitsValue(s, acc) ==
    IF s = <<>> THEN acc
    ELSE DigitsValue(Tail(s), IF IsDigit(Head(s)) THEN acc * 10 + DigitVal(Head(s)) ELSE acc)

RECURSIVE Pow10(_)
Pow10(n) == IF n = 0 THEN 1 ELSE 10 * Pow10(n - 1)

FracDigits(s) ==
    IF NumDots(s) = 0 THEN 0
    ELSE Len(s) - (CHOOSE i \in 1..Len(s) : s[i] = Dot)

\* the value of float(text), as a reduced fraction <<numerator, denominator>>
FloatValue(s) ==
    LET n == DigitsValue(s, 0)
        d == Pow10(FracDigits(s))
        g == Gcd(n, d)
    IN  <<n \div g, d \div g>>

\* " - "
Separator == <<32, 45, 32>>

\* text.split(" - ")[0]
BeforeSeparator(s) ==
    LET at == {i \in 1..Len(s) : i + 2 <= Len(s) /\ SubSeq(s, i, i + 2) = Separator}
    IN  IF at = {} THEN s
        ELSE SubSeq(s, 1, (CHOOSE i \in at : \A j \in at : i <= j) - 1)

\* "Parte"
Parte == <<80, 97, 114, 116, 101>>

\* re.sub(r"^Parte\s\d\s", "", theme).strip()
StripParte(s) ==
    IF /\ Len(s) >= 8
       /\ SubSeq(s, 1, 5) = Parte
       /\ s[6] = Space
       /\ IsDigit(s[7])
       /\ s[8] = Space
    THEN Strip(SubSeq(s, 9, Len(s)))
    ELSE Strip(s)

----------------------------------------------------------------------------
(* extract_quiz_data: the loop over the parts and their record fragments. *)
(* A fragment is given by what the HTML parser finds in it: the number of  *)
(* <br/>-separated segments, the text of the first <b> of segment 0,       *)
(* whether segment 1 matches the annotation pattern and with which groups, *)
(* the text of the first <b> of the last segment, the first <i> and the    *)
(* <i> after <b>Resposta</b>.                                              *)

NoTag == [found |-> FALSE, text |-> <<>>]
Tag(t) == [found |-> TRUE, text |-> t]

\* the exceptions that nothing in the program catches
FloatError == "ValueError (float)"
UnpackError == "ValueError (unpack)"
LocalError == "UnboundLocalError"

Unbound == [bound |-> FALSE, val |-> <<>>]
Bound(v) == [bound |-> TRUE, val |-> v]

Fragment(n, player, matches, g1, g2, g3, pts, q, a) ==
    [nparts |-> n, player_b |-> player, matches |-> matches,
     group1 |-> g1, group2 |-> g2, group3 |-> g3, points_b |-> pts,
     question_i |-> q, answer_i |-> a]

TextTwo == <<50>>                           \* "2"
TextOne == <<49>>                           \* "1"
TextHalf == <<48, 46, 53>>                  \* "0.5"
TextBadDots == <<49, 46, 50, 46, 51>>       \* "1.2.3"
TextDot == <<46>>                           \* "."
Ana == <<65, 110, 97, 32, 45, 32, 83, 76, 66>>     \* "Ana - SLB"
Rui == <<82, 117, 105>>                     \* "Rui"
TextQ1 == <<81, 49>>                        \* "Q1"
TextQ2 == <<81, 50>>                        \* "Q2"
TextA1 == <<65, 49>>                        \* "A1"
ParteOneA == Parte \o <<32, 49, 32>> \o ThemeA     \* "Parte 1 A"

FragGuessed  == Fragment(3, Tag(Ana), TRUE, ParteOneA, TextHalf, TextTwo, Tag(TextTwo), Tag(TextQ1), Tag(TextA1))
FragMissed   == Fragment(3, Tag(Rui), TRUE, ThemeZ, TextOne, TextHalf, Tag(TextOne), Tag(TextQ2), Tag(TextA1))
FragNoPoints == Fragment(3, Tag(Rui), TRUE, ThemeM1, TextOne, TextOne, NoTag, Tag(TextQ1), NoTag)
FragNoPlayer == Fragment(3, NoTag, TRUE, ThemeA, TextOne, TextOne, Tag(TextOne), NoTag, NoTag)
FragShort    == Fragment(1, NoTag, FALSE, <<>>, <<>>, <<>>, NoTag, NoTag, NoTag)
FragNoMatch  == Fragment(3, Tag(Ana), FALSE, <<>>, <<>>, <<>>, Tag(TextTwo), Tag(TextQ1), Tag(TextA1))
FragBadXt    == Fragment(3, Tag(Ana), TRUE, ThemeA, TextBadDots, TextOne, Tag(TextOne), Tag(TextQ1), Tag(TextA1))
FragBadXp    == Fragment(3, Tag(Ana), TRUE, ThemeZ, TextOne, TextDot, Tag(TextOne), Tag(TextQ1), Tag(TextA1))

Fragments == {FragGuessed, FragMissed, FragNoPoints, FragNoPlayer, FragShort,
              FragNoMatch, FragBadXt, FragBadXp}

\* a part payload: with a "text" list of fragments, or without the field
PartPayloads == {[has_text |-> FALSE, text |-> <<>>]} \cup
                {[has_text |-> TRUE, text |-> t] : t \in SeqsUpTo(Fragments, MaxRows)}
QuizDatas == SeqsUpTo(PartPayloads, MaxQuizParts)

\* tag.get_text() if tag else ""
TagText(tag) == IF tag.found THEN tag.text ELSE <<>>

ExtractQuizData ==
    /\ ext_pc = "idle"
    /\ \E qd \in QuizDatas :
        /\ ext_pc' = "run"
        /\ quiz_data' = qd
        /\ ext_parsed_data' = <<>>
        /\ UNCHANGED <<ext_exc, ext_part_i, ext_in_part, ext_row_i, part_data,
                       player_name, points>>
        /\ UNCHANGED notExt

\* for part in quiz_data: part_data = []; if "text" not in part: continue
PartBegin ==
    /\ ext_pc = "run"
    /\ ~ext_in_part
    /\ ext_part_i < Len(quiz_data)
    /\ part_data' = <<>>
    /\ IF quiz_data[ext_part_i + 1].has_text
       THEN /\ ext_in_part' = TRUE
            /\ ext_row_i' = 0
            /\ UNCHANGED ext_part_i
       ELSE /\ ext_part_i' = ext_part_i + 1
            /\ UNCHANGED <<ext_in_part, ext_row_i>>
    /\ UNCHANGED <<ext_pc, ext_exc, quiz_data, ext_parsed_data, player_name, points>>
    /\ UNCHANGED notExt

CurrentRow == quiz_data[ext_part_i + 1].text[ext_row_i + 1]

\* one iteration of  for row in part["text"]
ExtractRow ==
    /\ ext_pc = "run"
    /\ ext_in_part
    /\ ext_row_i < Len(quiz_data[ext_part_i + 1].text)
    /\ LET row == CurrentRow
           name == IF row.player_b.found
                   THEN Bound(BeforeSeparator(row.player_b.text))
                   ELSE player_name
           pts == IF row.points_b.found
                  THEN Bound(Strip(row.points_b.text))
                  ELSE points
       IN  IF row.nparts < 2
           THEN \* continue
                /\ ext_row_i' = ext_row_i + 1
                /\ UNCHANGED <<ext_pc, ext_exc, part_data, player_name, points>>
           ELSE /\ player_name' = name
                /\ points' = pts
                /\ IF ~row.matches
                   THEN \* continue
                        /\ ext_row_i' = ext_row_i + 1
                        /\ UNCHANGED <<ext_pc, ext_exc, part_data>>
                   ELSE IF ~FloatParses(row.group2) \/ ~FloatParses(row.group3)
                   THEN \* float() raises ValueError
                        /\ ext_pc' = "raised"
                        /\ ext_exc' = FloatError
                        /\ UNCHANGED <<ext_row_i, part_data>>
                   ELSE IF ~name.bound \/ ~pts.bound
                   THEN \* the read of an unassigned local raises
                        /\ ext_pc' = "raised"
                        /\ ext_exc' = LocalError
                        /\ UNCHANGED <<ext_row_i, part_data>>
                   ELSE /\ part_data' = Append(part_data,
                               [theme |-> StripParte(Strip(row.group1)),
                                xT |-> FloatValue(row.group2),
                                xP |-> FloatValue(row.group3),
                                question |-> TagText(row.question_i),
                                answer |-> TagText(row.answer_i),
                                player |-> name.val,
                                guessed |-> (pts.val = TextTwo)])
                        /\ ext_row_i' = ext_row_i + 1
                        /\ UNCHANGED <<ext_pc, ext_exc>>
    /\ UNCHANGED <<quiz_data, ext_part_i, ext_in_part, ext_parsed_data>>
    /\ UNCHANGED notExt

\* parsed_data.append(part_data)
PartEnd ==
    /\ ext_pc = "run"
    /\ ext_in_part
    /\ ext_row_i = Len(quiz_data[ext_part_i + 1].text)
    /\ ext_parsed_data' = Append(ext_parsed_data, part_data)
    /\ ext_in_part' = FALSE
    /\ ext_part_i' = ext_part_i + 1
    /\ UNCHANGED <<ext_pc, ext_exc, quiz_data, ext_row_i, part_data, player_name, points>>
    /\ UNCHANGED notExt

\* return parsed_data
ExtractReturn ==
    /\ ext_pc = "run"
    /\ ~ext_in_part
    /\ ext_part_i = Len(quiz_data)
    /\ ext_pc' = "done"
    /\ UNCHANGED <<ext_exc, quiz_data, ext_part_i, ext_in_part, ext_row_i, part_data,
                   ext_parsed_data, player_name, points>>
    /\ UNCHANGED notExt

ExtInit ==
    /\ ext_pc = "idle"
    /\ ext_exc = "none"
    /\ quiz_data = <<>>
    /\ ext_part_i = 0
    /\ ext_in_part = FALSE
    /\ ext_row_i = 0
    /\ part_data = <<>>
    /\ ext_parsed_data = <<>>
    /\ player_name = Unbound
    /\ points = Unbound

ExtNext ==
    \/ ExtractQuizData
    \/ PartBegin
    \/ ExtractRow
    \/ PartEnd
    \/ ExtractReturn

----------------------------------------------------------------------------
(* Claims about extract_quiz_data. *)

InRow == ext_pc = "run" /\ ext_in_part /\ ext_row_i < Len(quiz_data[ext_part_i + 1].text)

\* C5: each emitted record has guessed = true iff the first bold span of its
\* own last segment has text exactly "2"; a record whose last segment has no
\* bold span gets guessed = false, whatever was processed before it.
C5_GuessedFromOwnPointsLine ==
    [][(InRow /\ Len(part_data') = Len(part_data) + 1) =>
           (part_data'[Len(part_data')].guessed =
               (CurrentRow.points_b.found /\ CurrentRow.points_b.text = <<50>>))]_vars

\* the number texts the claim names as malformed
MalformedNumber(s) == s = <<49, 46, 50, 46, 51>> \/ s = <<46>>

\* C6: a fragment whose theme line matches the pattern but whose xT or xP text
\* is a malformed number is discarded alone, without an error, and the loop
\* goes on with the next fragment.
C6_MalformedNumberDiscarded ==
    [][(/\ InRow
        /\ CurrentRow.nparts >= 2
        /\ CurrentRow.matches
        /\ (MalformedNumber(CurrentRow.group2) \/ MalformedNumber(CurrentRow.group3))
        /\ extVars' # extVars)
       => (/\ ext_pc' = "run"
           /\ ext_exc' = "none"
           /\ part_data' = part_data
           /\ ext_row_i' = ext_row_i + 1)]_vars

----------------------------------------------------------------------------
(* main, with find_jf_game and the head of extract_quiz_data.  A page is  *)
(* given by what the fetch and the HTML parser make of it: whether the     *)
(* fetch succeeded, the text of its <title> if it has one, and its         *)
(* div.level3 blocks in document order.  A block has no JSON script tag, a *)
(* script that is not JSON, or a JSON object; the object is empty or not,  *)
(* has x.layout.title.text or not, has x.data or not; its data is given by *)
(* the number of records of each part that extract_quiz_data returns, or   *)
(* by the exception a fragment of it makes extract_quiz_data raise.        *)
(* Script tags hold text, and what is present of x, layout and title in a  *)
(* payload is an object.                                                   *)

\* "José Figueiras", the marker, and two titles
Marker == <<74, 111, 115, 233, 32, 70, 105, 103, 117, 101, 105, 114, 97, 115>>
TitleOfJF == <<74, 70, 71, 32>> \o Marker          \* "JFG José Figueiras"
TitleOfOther == <<74, 111, 115, 233>>               \* "José"

\* s in t
Contains(t, s) == \E i \in 1..(Len(t) - Len(s) + 1) : SubSeq(t, i, i + Len(s) - 1) = s

Block(script, empty, has_title, title, has_data, nparts, raises) ==
    [script |-> script, empty |-> empty, has_title |-> has_title, title |-> title,
     has_data |-> has_data, data |-> nparts, raises |-> raises]

BlkNoScript == Block("none", TRUE, FALSE, <<>>, FALSE, <<>>, "none")
BlkBadJson  == Block("bad", TRUE, FALSE, <<>>, FALSE, <<>>, "none")
BlkEmpty    == Block("json", TRUE, FALSE, <<>>, FALSE, <<>>, "none")
BlkNoTitle  == Block("json", FALSE, FALSE, <<>>, TRUE, <<1>>, "none")
BlkOther    == Block("json", FALSE, TRUE, TitleOfOther, TRUE, <<2>>, "none")
BlkJF       == Block("json", FALSE, TRUE, TitleOfJF, TRUE, <<3, 1>>, "none")
BlkJFNoData == Block("json", FALSE, TRUE, TitleOfJF, FALSE, <<>>, "none")
BlkJFBadRow == Block("json", FALSE, TRUE, TitleOfJF, TRUE, <<>>, FloatError)

Blocks == {BlkNoScript, BlkBadJson, BlkEmpty, BlkNoTitle, BlkOther, BlkJF, BlkJFNoData,
           BlkJFBadRow}

NoTitleTag == [found |-> FALSE, text |-> <<>>]
PageTitles == {
    NoTitleTag,
    [found |-> TRUE, text |-> <<83, 49, 53>>],                          \* "S15"
    [found |-> TRUE, text |-> <<32, 83, 49, 53, 32, 87, 55, 32>>],      \* " S15 W7 "
    [found |-> TRUE, text |-> <<49, 32, 50, 32, 51>>] }                 \* "1 2 3"

FailedFetch == [fetch_ok |-> FALSE, title |-> NoTitleTag, blocks |-> <<>>]
Pages == {FailedFetch} \cup
         {[fetch_ok |-> TRUE, title |-> t, blocks |-> b] :
              t \in PageTitles, b \in SeqsUpTo(Blocks, MaxBlocks)}

DidNotFind == "Did not find José Figueiras."
NoMatchingDiv == "No matching div with target title found."
ErrorParsing == "Error parsing JSON"
ErrorFetching == "Error fetching page"

\* extract_page_title
extract_page_title(pg) == IF ~pg.title.found THEN <<>> ELSE Strip(pg.title.text)

\* [int(n) for n in re.findall(r"\d+", title)]: cur is the run being read, -1 for none
RECURSIVE FindAllInts(_, _, _)
FindAllInts(s, cur, acc) ==
    IF s = <<>> THEN (IF cur >= 0 THEN Append(acc, cur) ELSE acc)
    ELSE IF IsDigit(Head(s))
         THEN FindAllInts(Tail(s), (IF cur < 0 THEN 0 ELSE cur) * 10 + DigitVal(Head(s)), acc)
         ELSE FindAllInts(Tail(s), -1, IF cur >= 0 THEN Append(acc, cur) ELSE acc)

\* for url in urls: html_content = fetch_page(url); if html_content: ...
Fetch ==
    /\ main_pc = "loop"
    /\ url_i < MaxUrls
    /\ \E pg \in Pages :
        /\ url_i' = url_i + 1
        /\ page' = pg
        /\ IF pg.fetch_ok
           THEN /\ page_title' = extract_page_title(pg)
                /\ blk_i' = 0
                /\ whole_json' = 0
                /\ main_pc' = "find"
                /\ UNCHANGED diag
           ELSE /\ diag' = diag \cup {<<url_i + 1, ErrorFetching>>}
                /\ UNCHANGED <<main_pc, page_title, blk_i, whole_json>>
        /\ UNCHANGED <<main_exc, sorted_data, season, week, main_part_i, decks, summaries>>
        /\ UNCHANGED notMain

\* one iteration of  for div_container in soup.find_all("div", class_="level3")
FindLoop_TitleFirst ==
    /\ main_pc = "find"
    /\ blk_i < Len(page.blocks)
    /\ LET b == page.blocks[blk_i + 1]
       IN  IF b.script # "json" \/ ~b.has_title
           THEN /\ blk_i' = blk_i + 1
                /\ UNCHANGED <<main_pc, whole_json>>
           ELSE /\ whole_json' = blk_i + 1
                /\ IF Contains(b.title, Marker)
                   THEN main_pc' = "extract" /\ UNCHANGED blk_i
                   ELSE blk_i' = blk_i + 1 /\ UNCHANGED main_pc
    /\ UNCHANGED <<main_exc, url_i, page, page_title, sorted_data, season, week,
                   main_part_i, decks, summaries, diag>>
    /\ UNCHANGED notMain

FindLoop ==
    /\ main_pc = "find"
    /\ blk_i < Len(page.blocks)
    /\ LET b == page.blocks[blk_i + 1]
       IN  IF b.script # "json"
           THEN \* no script tag, or json.JSONDecodeError: continue
                /\ blk_i' = blk_i + 1
                /\ UNCHANGED <<main_pc, whole_json>>
           ELSE /\ whole_json' = blk_i + 1
                /\ IF ~b.has_title
                   THEN \* KeyError: continue
                        blk_i' = blk_i + 1 /\ UNCHANGED main_pc
                   ELSE IF Contains(b.title, Marker)
                   THEN \* return whole_json
                        main_pc' = "extract" /\ UNCHANGED blk_i
                   ELSE blk_i' = blk_i + 1 /\ UNCHANGED main_pc
    /\ UNCHANGED <<main_exc, url_i, page, page_title, sorted_data, season, week,
                   main_part_i, decks, summaries, diag>>
    /\ UNCHANGED notMain

\* print("Did not find José Figueiras."); return whole_json
FindEnd ==
    /\ main_pc = "find"
    /\ blk_i = Len(page.blocks)
    /\ diag' = diag \cup {<<url_i, DidNotFind>>}
    /\ IF whole_json = 0
       THEN \* the read of the unassigned local raises, and nothing catches it
            main_pc' = "crashed" /\ main_exc' = LocalError
       ELSE main_pc' = "extract" /\ UNCHANGED main_exc
    /\ UNCHANGED <<url_i, page, page_title, blk_i, whole_json, sorted_data, season, week,
                   main_part_i, decks, summaries>>
    /\ UNCHANGED notMain

\* the rest of extract_quiz_data, then sort_quiz_data: the parts that come back
ExtractAndSort ==
    /\ main_pc = "extract"
    /\ LET b == page.blocks[whole_json]
       IN  IF b.empty
           THEN \* if not whole_json
                /\ diag' = diag \cup {<<url_i, NoMatchingDiv>>}
                /\ sorted_data' = <<>>
           ELSE IF ~b.has_data
           THEN \* KeyError
                /\ diag' = diag \cup {<<url_i, ErrorParsing>>}
                /\ sorted_data' = <<>>
           ELSE /\ sorted_data' = b.data
                /\ UNCHANGED diag
    /\ IF ~page.blocks[whole_json].empty /\ page.blocks[whole_json].has_data
          /\ page.blocks[whole_json].raises # "none"
       THEN \* a fragment made the loop of extract_quiz_data raise
            main_pc' = "crashed" /\ main_exc' = page.blocks[whole_json].raises
       ELSE main_pc' = "meta" /\ UNCHANGED main_exc
    /\ UNCHANGED <<url_i, page, page_title, blk_i, whole_json, season, week,
                   main_part_i, decks, summaries>>
    /\ UNCHANGED notMain

\* season, week = [int(n) for n in re.findall(r"\d+", page_title)]
Metadata_FirstTwo ==
    /\ main_pc = "meta"
    /\ LET ints == FindAllInts(page_title, -1, <<>>)
       IN  IF Len(ints) < 2
           THEN /\ main_pc' = "crashed"
                /\ main_exc' = UnpackError
                /\ UNCHANGED <<season, week, main_part_i>>
           ELSE /\ season' = ints[1]
                /\ week' = ints[2]
                /\ main_part_i' = 0
                /\ main_pc' = "parts"
                /\ UNCHANGED main_exc
    /\ UNCHANGED <<url_i, page, page_title, blk_i, whole_json, sorted_data, decks,
                   summaries, diag>>
    /\ UNCHANGED notMain

Metadata ==
    /\ main_pc = "meta"
    /\ LET ints == FindAllInts(page_title, -1, <<>>)
       IN  IF Len(ints) # 2
           THEN \* the unpacking raises ValueError, and nothing catches it
                /\ main_pc' = "crashed"
                /\ main_exc' = UnpackError
                /\ UNCHANGED <<season, week, main_part_i>>
           ELSE /\ season' = ints[1]
                /\ week' = ints[2]
                /\ main_part_i' = 0
                /\ main_pc' = "parts"
                /\ UNCHANGED main_exc
    /\ UNCHANGED <<url_i, page, page_title, blk_i, whole_json, sorted_data, decks,
                   summaries, diag>>
    /\ UNCHANGED notMain

\* one iteration of  for i, part_data in enumerate(sorted_data, 1): create_ppt(...)
PartsLoop ==
    /\ main_pc = "parts"
    /\ main_part_i < Len(sorted_data)
    /\ main_part_i' = main_part_i + 1
    /\ decks' = decks \cup {<<url_i, main_part_i + 1>>}
    /\ UNCHANGED <<main_pc, main_exc, url_i, page, page_title, blk_i, whole_json,
                   sorted_data, season, week, summaries, diag>>
    /\ UNCHANGED notMain

\* print_json(quiz, f"{page_title}.json")
PrintJson ==
    /\ main_pc = "parts"
    /\ main_part_i = Len(sorted_data)
    /\ summaries' = summaries \cup {url_i}
    /\ main_pc' = "loop"
    /\ UNCHANGED <<main_exc, url_i, page, page_title, blk_i, whole_json, sorted_data,
                   season, week, main_part_i, decks, diag>>
    /\ UNCHANGED notMain

\* the loop over urls is exhausted
MainReturn ==
    /\ main_pc = "loop"
    /\ url_i = MaxUrls
    /\ main_pc' = "exit"
    /\ UNCHANGED <<main_exc, url_i, page, page_title, blk_i, whole_json, sorted_data,
                   season, week, main_part_i, decks, summaries, diag>>
    /\ UNCHANGED notMain

MainInit ==
    /\ main_pc = "loop"
    /\ main_exc = "none"
    /\ url_i = 0
    /\ page = FailedFetch
    /\ page_title = <<>>
    /\ blk_i = 0
    /\ whole_json = 0
    /\ sorted_data = <<>>
    /\ season = 0
    /\ week = 0
    /\ main_part_i = 0
    /\ decks = {}
    /\ summaries = {}
    /\ diag = {}

MainNext ==
    \/ Fetch
    \/ FindLoop
    \/ FindEnd
    \/ ExtractAndSort
    \/ Metadata
    \/ PartsLoop
    \/ PrintJson
    \/ MainReturn

----------------------------------------------------------------------------
(* Claims about find_jf_game and main. *)

Parsed == {i \in 1..Len(page.blocks) : page.blocks[i].script = "json"}
Matching == {i \in Parsed : /\ page.blocks[i].has_title
                            /\ Contains(page.blocks[i].title, Marker)}
Least(S) == CHOOSE i \in S : \A j \in S : i <= j
Greatest(S) == CHOOSE i \in S : \A j \in S : i >= j
NoArtifact == (\A d \in decks : d[1] # url_i) /\ url_i \notin summaries
PageInProgress == main_pc \in {"find", "extract", "meta", "parts", "crashed"}

\* C7: find_jf_game returns the first JSON payload, in document order, whose
\* title contains the marker; with no such payload but at least one that
\* parsed, it returns the last payload that parsed (even one with no title)
\* and prints the miss without failing.
C7_FirstMatchElseLastParsed ==
    /\ main_pc = "extract" =>
          IF Matching # {}
          THEN /\ whole_json = Least(Matching)
               /\ <<url_i, DidNotFind>> \notin diag
          ELSE /\ Parsed # {}
               /\ whole_json = Greatest(Parsed)
               /\ <<url_i, DidNotFind>> \in diag
    /\ (main_pc = "crashed" /\ main_exc = LocalError) => Parsed = {}

C7_Witness ==
    /\ main_pc = "extract"
    /\ page.blocks = <<BlkOther, BlkNoTitle>>
    /\ whole_json = 2

\* C8: a page with no block whose payload parses as JSON is reported, yields
\* no deck and no summary, and does not end the run.
C8_NoPayloadDoesNotCrash ==
    (PageInProgress /\ page.fetch_ok /\ Parsed = {} /\ main_pc # "find") =>
        /\ <<url_i, DidNotFind>> \in diag
        /\ NoArtifact
        /\ main_pc # "crashed"

\* the number of digit runs of a text
NumInts(t) == Cardinality({i \in 1..Len(t) : IsDigit(t[i]) /\ (i = 1 \/ ~IsDigit(t[i - 1]))})

\* C9: a page whose title does not hold exactly two integers stops at the
\* metadata step with no deck and no summary written for it; with exactly
\* two, season is the first and week the second.
C9_TwoIntegers ==
    /\ (PageInProgress /\ NumInts(page_title) # 2) =>
          /\ NoArtifact
          /\ main_pc # "parts"
    /\ (main_pc = "crashed" /\ main_exc = UnpackError) => NumInts(page_title) # 2
    /\ main_pc = "parts" =>
          /\ NumInts(page_title) = 2
          /\ season = FindAllInts(page_title, -1, <<>>)[1]
          /\ week = FindAllInts(page_title, -1, <<>>)[2]
          /\ page_title = <<83, 49, 53, 32, 87, 55>> => (season = 15 /\ week = 7)

C9_Witness ==
    /\ main_pc = "crashed"
    /\ main_exc = UnpackError
    /\ page_title = <<49, 32, 50, 32, 51>>
    /\ Len(sorted_data) = 2

----------------------------------------------------------------------------
Init == PptInit /\ SortInit /\ ExtInit /\ MainInit

SpecPpt == Init /\ [][PptNext]_vars

SpecSort == Init /\ [][SortNext]_vars

SpecExtract == Init /\ [][ExtNext]_vars

SpecMain == Init /\ [][MainNext]_vars

====
